---------------------------- MODULE Spec2Model ----------------------------
(*************************************************************************)
(* k8s-ingress-claim: the admission webhook that keeps two ingresses    *)
(* from claiming the same host/domain under one ingress claim provider. *)
(*                                                                       *)
(* Strings that the code lower-cases, strips or splits (annotation      *)
(* values, rule hosts) are sequences of one-character strings, so that  *)
(* sanitize and strings.Split are computed character by character.      *)
(* Strings the code only compares (names, namespaces, the ingress class,*)
(* annotation keys) are plain strings.                                  *)
(*************************************************************************)
EXTENDS Integers, Sequences, FiniteSets, TLC

VARIABLES
    pc,        \* position of main()
    admitAll,  \* the -admitAll flag, fixed when the process starts
    indexer,   \* helper.indexer: "nil" until SetIndexer, then "bound"
    registered,\* the names of the indices the indexer was created with
    synced,    \* informer.HasSynced()
    store,     \* the informer's thread-safe store: key (namespace, name) -> ingress
    indices,   \* the store's indices: entries <<index name, domain, key>>
    queue,     \* watch deltas the API server has emitted and the informer has not applied
    resp,      \* what the last webhookHandler call wrote, NoResp once the API server consumed it
    writes,    \* number of writes the API server has persisted
    stale,     \* history: some review was allowed while a persisted write had not reached the index
    probe,     \* the last ingress handed to the provider functions on their own
    check      \* the claim check in progress when its lookups are separate steps

vars == <<pc, admitAll, indexer, registered, synced, store, indices, queue, resp, writes, stale, probe, check>>

-----------------------------------------------------------------------------
(* Sequences and strings *)

Range(s) == {s[i] : i \in 1..Len(s)}

\* strings.ToLower on one character of the alphabet used here
ToLower(c) ==
    CASE c = "A" -> "a"
      [] c = "B" -> "b"
      [] OTHER -> c

\* strings.Split(s, ","): the pieces between the commas, empty pieces included
RECURSIVE SplitFrom(_, _)
SplitFrom(s, cur) ==
    IF s = <<>> THEN <<cur>>
    ELSE IF Head(s) = "," THEN <<cur>> \o SplitFrom(Tail(s), <<>>)
    ELSE SplitFrom(Tail(s), Append(cur, Head(s)))

Split(s) == SplitFrom(s, <<>>)

-----------------------------------------------------------------------------
(* Annotations and providers' names *)

ATS == "ATS"
Istio == "istio"
IngressClass == "kubernetes.io/ingress.class"
DefaultDomain == "default_domain"
Aliases == "aliases"
Ports == "ports"

\* the providers map built by init()
Providers == {ATS, Istio}

\* the error value nil
NoErr == [kind |-> "nil"]

-----------------------------------------------------------------------------
(* Helper: sanitize and appendNonEmpty *)

sanitizeSpaceOnly(s) == SelectSeq(s, LAMBDA c : c # " ")

\* strings.Replace(strings.ToLower(s), " ", "", -1)
sanitize(s) ==
    SelectSeq([i \in 1..Len(s) |-> ToLower(s[i])], LAMBDA c : c # " ")

RECURSIVE appendAll(_, _)
appendAll(slice, items) ==
    IF items = <<>> THEN slice
    ELSE appendAll(Append(slice, sanitize(Head(items))), Tail(items))

RECURSIVE appendNonEmpty(_, _)
appendNonEmpty(slice, items) ==
    IF items = <<>> THEN slice
    ELSE LET item == sanitize(Head(items))
         IN  appendNonEmpty(IF item # <<>> THEN Append(slice, item) ELSE slice,
                            Tail(items))

-----------------------------------------------------------------------------
(* The ATS provider *)

ATSServesUnlessIstio(ingress) ==
    IngressClass \notin DOMAIN ingress.ann \/ ingress.ann[IngressClass] # Istio

ATSServesOnlyNamed(ingress) ==
    IngressClass \in DOMAIN ingress.ann /\ ingress.ann[IngressClass] = ATS

ATSServesIngress(ingress) ==
    LET exists == IngressClass \in DOMAIN ingress.ann
    IN  ~exists \/ ingress.ann[IngressClass] = ATS

ATSgetDefaultDomain(ingress) ==
    IF DefaultDomain \in DOMAIN ingress.ann
    THEN sanitize(ingress.ann[DefaultDomain])
    ELSE <<>>

ATSgetAliases(ingress) ==
    IF Aliases \notin DOMAIN ingress.ann
    THEN <<>>
    ELSE appendNonEmpty(<<>>, Split(sanitize(ingress.ann[Aliases])))

ATSgetPorts(ingress) ==
    IF Ports \notin DOMAIN ingress.ann
    THEN <<>>
    ELSE appendNonEmpty(<<>>, Split(ingress.ann[Ports]))

ATSGetDomainsAliasesFirst(ingress) ==
    IF ATSServesIngress(ingress)
    THEN appendNonEmpty(appendNonEmpty(<<>>, ATSgetAliases(ingress)),
                        <<ATSgetDefaultDomain(ingress)>>)
    ELSE <<>>

ATSGetDomains(ingress) ==
    IF ATSServesIngress(ingress)
    THEN appendNonEmpty(appendNonEmpty(<<>>, <<ATSgetDefaultDomain(ingress)>>),
                        ATSgetAliases(ingress))
    ELSE <<>>

ATSIndexDefaultDomainOnly(ingress) ==
    appendNonEmpty(<<>>, <<ATSgetDefaultDomain(ingress)>>)

\* obj is always an ingress here: the informer watches ingresses only
ATSDomainsIndexFunc(ingress) ==
    IF ATSServesIngress(ingress) THEN ATSGetDomains(ingress) ELSE <<>>

ATSValidateDomainFirst(ingress) ==
    IF ATSServesIngress(ingress)
    THEN IF ~ingress.backend
         THEN [kind |-> "NoDefaultBackend", name |-> ingress.name,
               namespace |-> ingress.namespace]
         ELSE IF ATSgetDefaultDomain(ingress) = <<>>
         THEN [kind |-> "NoDefaultDomain", name |-> ingress.name,
               namespace |-> ingress.namespace]
         ELSE IF Len(ATSgetPorts(ingress)) = 0
         THEN [kind |-> "NoPorts", name |-> ingress.name,
               namespace |-> ingress.namespace]
         ELSE NoErr
    ELSE NoErr

ATSValidateSemantics(ingress) ==
    IF ATSServesIngress(ingress)
    THEN IF ~ingress.backend
         THEN [kind |-> "NoDefaultBackend", name |-> ingress.name,
               namespace |-> ingress.namespace]
         ELSE IF Len(ATSgetPorts(ingress)) = 0
         THEN [kind |-> "NoPorts", name |-> ingress.name,
               namespace |-> ingress.namespace]
         ELSE IF ATSgetDefaultDomain(ingress) = <<>>
         THEN [kind |-> "NoDefaultDomain", name |-> ingress.name,
               namespace |-> ingress.namespace]
         ELSE NoErr
    ELSE NoErr

-----------------------------------------------------------------------------
(* The Istio provider *)

IstioServesAnyClass(ingress) == IngressClass \in DOMAIN ingress.ann

IstioServesIngress(ingress) ==
    LET exists == IngressClass \in DOMAIN ingress.ann
    IN  exists /\ ingress.ann[IngressClass] = Istio

IstioGetDomainsUnserved(ingress) == appendNonEmpty(<<>>, ingress.rules)

IstioGetDomains(ingress) ==
    IF IstioServesIngress(ingress)
    THEN appendNonEmpty(<<>>, ingress.rules)
    ELSE <<>>

IstioDomainsIndexFunc(ingress) ==
    IF IstioServesIngress(ingress) THEN IstioGetDomains(ingress) ELSE <<>>

IstioValidateRulesFirst(ingress) ==
    IF IstioServesIngress(ingress)
    THEN IF \E i \in 1..Len(ingress.rules) : sanitize(ingress.rules[i]) = <<>>
         THEN [kind |-> "RuleWithoutHost", name |-> ingress.name,
               namespace |-> ingress.namespace]
         ELSE IF ingress.backend
         THEN [kind |-> "DefaultBackendNotSupported", name |-> ingress.name,
               namespace |-> ingress.namespace]
         ELSE NoErr
    ELSE NoErr

IstioValidateSemantics(ingress) ==
    IF IstioServesIngress(ingress)
    THEN IF ingress.backend
         THEN [kind |-> "DefaultBackendNotSupported", name |-> ingress.name,
               namespace |-> ingress.namespace]
         ELSE IF \E i \in 1..Len(ingress.rules) : sanitize(ingress.rules[i]) = <<>>
         THEN [kind |-> "RuleWithoutHost", name |-> ingress.name,
               namespace |-> ingress.namespace]
         ELSE NoErr
    ELSE NoErr

-----------------------------------------------------------------------------
(* Dispatch over the Provider interface *)

ServesIngress(p, ingress) ==
    IF p = ATS THEN ATSServesIngress(ingress) ELSE IstioServesIngress(ingress)

GetDomains(p, ingress) ==
    IF p = ATS THEN ATSGetDomains(ingress) ELSE IstioGetDomains(ingress)

DomainsIndexFunc(p, ingress) ==
    IF p = ATS THEN ATSDomainsIndexFunc(ingress) ELSE IstioDomainsIndexFunc(ingress)

ValidateSemantics(p, ingress) ==
    IF p = ATS THEN ATSValidateSemantics(ingress) ELSE IstioValidateSemantics(ingress)

-----------------------------------------------------------------------------
(* Helper: the provider registry *)

GetDefaultProvider == ATS

\* the orders in which `range h.providers` can visit the map
ProviderOrders == {<<ATS, Istio>>, <<Istio, ATS>>}

RECURSIVE GetProviderIn(_, _)
GetProviderIn(order, ingress) ==
    IF order = <<>> THEN GetDefaultProvider
    ELSE IF ServesIngress(Head(order), ingress) THEN Head(order)
    ELSE GetProviderIn(Tail(order), ingress)

\* every provider GetProvider can return for the ingress, one per iteration order
GetProvider(ingress) == {GetProviderIn(order, ingress) : order \in ProviderOrders}

-----------------------------------------------------------------------------
(* The cache.Indexer handed to SetIndexer: a keyed store with named indices *)

\* the objects' keys: DeletionHandlingMetaNamespaceKeyFunc gives namespace/name
Keys == {<<"ns1", "ing1">>, <<"ns1", "ing2">>, <<"ns2", "ing1">>}

KeyOf(ingress) == <<ingress.namespace, ingress.name>>

\* the value of store[k] when the store holds no object under k
Absent == [absent |-> TRUE]

\* the cache.Indexers main() registers, by name
Indexers == {ATS, Istio}

\* the index values of an object under one named index
IndexValues(name, obj) ==
    IF obj = Absent THEN {} ELSE Range(DomainsIndexFunc(name, obj))

\* one entry <<index name, index value, key>> per claim an object makes
\* under an index the indexer was created with
IndexEntries(obj, key) ==
    UNION {{<<name, v, key>> : v \in IndexValues(name, obj)} : name \in registered}

StaleUpdateIndices(idx, oldObj, newObj, key) == idx \cup IndexEntries(newObj, key)

\* threadSafeMap.updateIndices: drop the old object's entries, add the new object's
updateIndices(idx, oldObj, newObj, key) ==
    (idx \ IndexEntries(oldObj, key)) \cup IndexEntries(newObj, key)

\* Indexer.ByIndex(name, value): the keys of the stored objects indexed under value
ByIndex(idx, name, value) == {e[3] : e \in {x \in idx : x[1] = name /\ x[2] = value}}

-----------------------------------------------------------------------------
(* Helper: the duplicate domain check *)

SameNameOnly(key, ingress) == key[2] = ingress.name

NeverSame(key, ingress) == FALSE

\* line 234: the match is the request's own ingress
SameIngress(key, ingress) == key[1] = ingress.namespace /\ key[2] = ingress.name

lookupAnyIndex(index, domain) ==
    [err |-> NoErr,
     ingresses |-> UNION {ByIndex(indices, name, domain) : name \in Indexers}]

\* a lookup that also sees the writes the informer has not applied yet
lookupWithPending(index, domain) ==
    IF indexer = "nil" THEN [err |-> [kind |-> "panic"], ingresses |-> {}]
    ELSE IF index \notin registered
    THEN [err |-> [kind |-> "IndexNotFound", index |-> index], ingresses |-> {}]
    ELSE [err |-> NoErr,
          ingresses |-> ByIndex(indices, index, domain) \cup
              {queue[j].key : j \in {n \in 1..Len(queue) :
                    domain \in IndexValues(index, queue[n].obj)}}]

lookupNoSuchIndexEmpty(index, domain) ==
    IF indexer = "nil" THEN [err |-> [kind |-> "panic"], ingresses |-> {}]
    ELSE [err |-> NoErr, ingresses |-> ByIndex(indices, index, domain)]

\* h.indexer.ByIndex(index, domain) as lookupIngressesByDomain calls it:
\* a nil indexer panics, an index name that is not registered is an error
lookupIngressesByDomain(index, domain) ==
    IF indexer = "nil" THEN [err |-> [kind |-> "panic"], ingresses |-> {}]
    ELSE IF index \notin registered
    THEN [err |-> [kind |-> "IndexNotFound", index |-> index], ingresses |-> {}]
    ELSE [err |-> NoErr, ingresses |-> ByIndex(indices, index, domain)]

\* The outcomes of the loop of validateDomainClaims over the domains left,
\* each with the lookups made so far. GetProvider is called anew for every
\* domain, and the matches come back in no particular order: any match
\* that is not the ingress itself can be the one the error names.
RECURSIVE validateDomainClaimsFrom(_, _, _)
validateDomainClaimsFrom(ingress, domains, lookups) ==
    IF domains = <<>> THEN {[err |-> NoErr, lookups |-> lookups]}
    ELSE UNION {
        LET domain == Head(domains)
            found == lookupIngressesByDomain(index, domain)
            made == Append(lookups, <<index, domain>>)
            others == {k \in found.ingresses : ~SameIngress(k, ingress)}
        IN  IF found.err # NoErr THEN {[err |-> found.err, lookups |-> made]}
            ELSE IF others # {}
            THEN {[err |-> [kind |-> "DomainExists", domain |-> domain,
                            name |-> k[2], namespace |-> k[1]],
                   lookups |-> made] : k \in others}
            ELSE validateDomainClaimsFrom(ingress, Tail(domains), made)
        : index \in GetProvider(ingress)}

\* the domains examined last to first
validateDomainClaimsReversed(ingress, domains) ==
    validateDomainClaimsFrom(ingress,
        [i \in 1..Len(domains) |-> domains[Len(domains) + 1 - i]], <<>>)

validateDomainClaims(ingress, domains) ==
    validateDomainClaimsFrom(ingress, domains, <<>>)

NoClaimCheck(p, ingress) == {[err |-> NoErr, lookups |-> <<>>]}

\* ats.ValidateDomainClaims and istio.ValidateDomainClaims
ValidateDomainClaims(p, ingress) ==
    IF ServesIngress(p, ingress)
    THEN validateDomainClaims(ingress, GetDomains(p, ingress))
    ELSE {[err |-> NoErr, lookups |-> <<>>]}

-----------------------------------------------------------------------------
(* The webhook: what webhookHandler writes for a request *)

ingressResourceType ==
    [group |-> "extensions", version |-> "v1beta1", resource |-> "ingresses"]

\* what the handler wrote: verdict "none" when no AdmissionReview was written
Written(verdict, reason, stage, lookups) ==
    [verdict |-> verdict, reason |-> reason, stage |-> stage, lookups |-> lookups]

Allow(stage, lookups) == Written("Allow", [kind |-> ""], stage, lookups)

Deny(reason, stage, lookups) == Written("Deny", reason, stage, lookups)

\* a nil dereference: net/http recovers the panic and writes no response
Panicked(stage, lookups) == Written("none", [kind |-> "panic"], stage, lookups)

\* lines 116-135: provider resolution, semantic validation, claim check
decideIngress(ingress) ==
    UNION {
        LET err == ValidateSemantics(p, ingress)
        IN  IF err # NoErr
            THEN {Deny([kind |-> "ValidationFailed", cause |-> err],
                       "ValidateSemantics", <<>>)}
            ELSE {IF c.err = NoErr THEN Allow("done", c.lookups)
                  ELSE IF c.err.kind = "panic"
                  THEN Panicked("ValidateDomainClaims", c.lookups)
                  ELSE Deny(c.err, "ValidateDomainClaims", c.lookups)
                  : c \in ValidateDomainClaims(p, ingress)}
        : p \in GetProvider(ingress)}

\* lines 98-114: the raw object is decoded into an Ingress, then its metadata
decodeIngress(req) ==
    IF req.raw = "badIngress"
    THEN {Deny([kind |-> "DecodeIngress", cause |-> req.raw], "decodeIngress", <<>>)}
    ELSE IF req.raw = "badMeta"
    THEN {Deny([kind |-> "DecodeIngressMeta", cause |-> req.raw], "decodeIngress", <<>>)}
    ELSE decideIngress(req.ingress)

SkipResourceCheck(req) == decodeIngress(req)

\* lines 92-96
checkResourceType(req) ==
    IF req.resource # ingressResourceType
    THEN {Deny([kind |-> "NotIngressResource", resource |-> req.resource],
               "resourceType", <<>>)}
    ELSE decodeIngress(req)

IgnoreAdmitAll(req) == checkResourceType(req)

\* lines 84-90
checkAdmitAll(req) ==
    IF admitAll THEN {Allow("admitAll", <<>>)} ELSE checkResourceType(req)

\* webhookHandler, lines 57-136. After Decode, admReview.Request is nil when
\* the body set "request" to null; writeResponse and the Debugf of line 82
\* dereference it.
webhookHandler(req) ==
    IF req.method # "POST"
    THEN {Written("none", [kind |-> "MethodNotAllowed"], "method", <<>>)}
    ELSE IF req.path # "/"
    THEN {Written("none", [kind |-> "NotFound"], "path", <<>>)}
    ELSE IF req.envelope # "ok"
    THEN IF req.requestNil THEN {Panicked("decodeReview", <<>>)}
         ELSE {Deny([kind |-> "DecodeAdmissionReview", cause |-> req.envelope],
                    "decodeReview", <<>>)}
    ELSE IF req.requestNil THEN {Panicked("decodeReview", <<>>)}
    ELSE checkAdmitAll(req)

-----------------------------------------------------------------------------
(* Bounds and inputs *)

\* writes (creates, updates, deletes) the API server persists in one behaviour
MaxWrites == 2

mkIngress(key, ann, backend, rules) ==
    [namespace |-> key[1], name |-> key[2], ann |-> ann,
     backend |-> backend, rules |-> rules]

\* an annotation map with the given keys
mkAnn(keys, class, defaultDomain, aliases, ports) ==
    [k \in keys |->
        CASE k = IngressClass -> class
          [] k = DefaultDomain -> defaultDomain
          [] k = Aliases -> aliases
          [] OTHER -> ports]

\* The ingress bodies sent to the webhook, each under every key:
\*   an unclassed ingress claiming a;  an ATS ingress claiming b and " A";
\*   an istio ingress with host a;  an ingress of an unknown class claiming
\*   a, with neither ports nor a default backend;
\*   an unclassed ingress claiming a with no ports annotation.
Shapes ==
    {[ann |-> mkAnn({DefaultDomain, Ports}, "", <<"a">>, <<>>, <<"8">>),
      backend |-> TRUE, rules |-> <<>>],
     [ann |-> mkAnn({IngressClass, DefaultDomain, Aliases, Ports},
                    ATS, <<"b">>, <<" ", "A">>, <<"8">>),
      backend |-> TRUE, rules |-> <<>>],
     [ann |-> mkAnn({IngressClass}, Istio, <<>>, <<>>, <<>>),
      backend |-> FALSE, rules |-> << <<"a">> >>],
     [ann |-> mkAnn({IngressClass, DefaultDomain}, "nginx", <<"a">>, <<>>, <<>>),
      backend |-> FALSE, rules |-> << <<"a">> >>],
     [ann |-> mkAnn({DefaultDomain}, "", <<"a">>, <<>>, <<>>),
      backend |-> TRUE, rules |-> <<>>]}

Ingresses == {mkIngress(k, s.ann, s.backend, s.rules) : k \in Keys, s \in Shapes}

mkRequest(method, path, envelope, requestNil, resource, raw, ingress) ==
    [method |-> method, path |-> path, envelope |-> envelope,
     requestNil |-> requestNil, resource |-> resource, raw |-> raw,
     ingress |-> ingress]

podsResourceType == [group |-> "", version |-> "v1", resource |-> "pods"]

networkingIngressType ==
    [group |-> "networking.k8s.io", version |-> "v1", resource |-> "ingresses"]

WellFormed(ingress) ==
    mkRequest("POST", "/", "ok", FALSE, ingressResourceType, "ok", ingress)

\* the ingress carried by the requests that are wrong in some other way
Sample ==
    CHOOSE i \in Ingresses :
        /\ KeyOf(i) = <<"ns1", "ing1">>
        /\ DOMAIN i.ann = {DefaultDomain, Ports}

\* Requests that fail before the ingress is looked at. A body that is not
\* JSON leaves the preallocated Request in place; a body with a field of the
\* wrong type is an error too, and one with "request": null leaves Request nil.
Malformed ==
    {mkRequest("GET", "/", "ok", FALSE, ingressResourceType, "ok", Sample),
     mkRequest("POST", "/ingress", "ok", FALSE, ingressResourceType, "ok", Sample),
     mkRequest("POST", "/", "syntaxError", FALSE, ingressResourceType, "ok", Sample),
     mkRequest("POST", "/", "typeError", FALSE, ingressResourceType, "ok", Sample),
     mkRequest("POST", "/", "typeError", TRUE, ingressResourceType, "ok", Sample),
     mkRequest("POST", "/", "ok", TRUE, ingressResourceType, "ok", Sample),
     mkRequest("POST", "/", "ok", FALSE, podsResourceType, "ok", Sample),
     mkRequest("POST", "/", "ok", FALSE, networkingIngressType, "ok", Sample),
     mkRequest("POST", "/", "typeError", FALSE, podsResourceType, "ok", Sample),
     mkRequest("POST", "/", "ok", FALSE, podsResourceType, "badIngress", Sample),
     mkRequest("POST", "/", "ok", FALSE, ingressResourceType, "badIngress", Sample),
     mkRequest("POST", "/", "ok", FALSE, ingressResourceType, "badMeta", Sample)}

Requests == {WellFormed(i) : i \in Ingresses} \cup Malformed

-----------------------------------------------------------------------------
(* The state *)

NoResp == [verdict |-> "unset"]

NoProbe == [probed |-> FALSE]

NoCheck == [phase |-> "none"]

EmptyStore == [k \in Keys |-> Absent]

\* -admitAll is false unless the operator passes it
AdmitAllDefault == FALSE

Init ==
    /\ pc = "start"
    /\ admitAll \in {AdmitAllDefault, TRUE}
    /\ indexer = "nil"
    /\ registered = {}
    /\ synced = FALSE
    /\ store = EmptyStore
    /\ indices = {}
    /\ queue = <<>>
    /\ resp = NoResp
    /\ writes = 0
    /\ stale = FALSE
    /\ probe = NoProbe
    /\ check = NoCheck

\* the ingresses the API server holds: the store with the pending deltas applied
RECURSIVE ApplyDeltas(_, _)
ApplyDeltas(objects, deltas) ==
    IF deltas = <<>> THEN objects
    ELSE ApplyDeltas([objects EXCEPT ![Head(deltas).key] = Head(deltas).obj],
                     Tail(deltas))

Cluster == ApplyDeltas(store, queue)

-----------------------------------------------------------------------------
(* main() *)

\* cache.NewIndexerInformer with the two providers' index functions
NewIndexerInformer ==
    /\ pc = "start"
    /\ pc' = "informerCreated"
    /\ registered' = Indexers
    /\ UNCHANGED <<admitAll, indexer, synced, store, indices, queue, resp, writes, stale, probe, check>>

SetIndexer ==
    /\ pc = "informerCreated"
    /\ indexer' = "bound"
    /\ pc' = "indexerSet"
    /\ UNCHANGED <<admitAll, registered, synced, store, indices, queue, resp, writes, stale, probe, check>>

\* go informer.Run(stop)
RunInformer ==
    /\ pc = "indexerSet"
    /\ pc' = "waitSync"
    /\ UNCHANGED <<admitAll, indexer, registered, synced, store, indices, queue, resp, writes, stale, probe, check>>

ServeUnsynced == pc = "waitSync"

\* what lets main() go past cache.WaitForCacheSync
CacheSynced == pc = "waitSync" /\ synced

WaitForCacheSync ==
    /\ CacheSynced
    /\ pc' = "synced"
    /\ UNCHANGED <<admitAll, indexer, registered, synced, store, indices, queue, resp, writes, stale, probe, check>>

\* WaitForCacheSync returned false: log.Fatal
SyncTimedOut ==
    /\ pc = "waitSync"
    /\ ~synced
    /\ pc' = "fatal"
    /\ UNCHANGED <<admitAll, indexer, registered, synced, store, indices, queue, resp, writes, stale, probe, check>>

\* the handlers are registered and ListenAndServeTLS is started
ListenAndServe ==
    /\ pc = "synced"
    /\ pc' = "serving"
    /\ UNCHANGED <<admitAll, indexer, registered, synced, store, indices, queue, resp, writes, stale, probe, check>>

\* the certificate, key or CA file cannot be read: log.Fatalf
LoadFailed ==
    /\ pc = "synced"
    /\ pc' = "fatal"
    /\ UNCHANGED <<admitAll, indexer, registered, synced, store, indices, queue, resp, writes, stale, probe, check>>

\* SIGINT or SIGTERM: close(stop), os.Exit(0)
Shutdown ==
    /\ pc = "serving"
    /\ pc' = "exited"
    /\ UNCHANGED <<admitAll, indexer, registered, synced, store, indices, queue, resp, writes, stale, probe, check>>

-----------------------------------------------------------------------------
(* The informer *)

InformerRunning == pc \in {"waitSync", "synced", "serving"}

\* the initial list has been popped into the store
InitialSync ==
    /\ InformerRunning
    /\ ~synced
    /\ synced' = TRUE
    /\ UNCHANGED <<pc, admitAll, indexer, registered, store, indices, queue, resp, writes, stale, probe, check>>

\* one watch delta is applied: the store's Add, Update or Delete with its indices
ApplyDelta ==
    /\ InformerRunning
    /\ synced
    /\ queue # <<>>
    /\ LET d == Head(queue)
       IN  /\ store' = [store EXCEPT ![d.key] = d.obj]
           /\ indices' = updateIndices(indices, store[d.key], d.obj, d.key)
    /\ queue' = Tail(queue)
    /\ UNCHANGED <<pc, admitAll, indexer, registered, synced, resp, writes, stale, probe, check>>

-----------------------------------------------------------------------------
(* The API server *)

\* the written response with the request it answers
Answer(req, w) ==
    [req |-> req, verdict |-> w.verdict, reason |-> w.reason,
     stage |-> w.stage, lookups |-> w.lookups]

\* a handler that records the claims of the ingress it allows
AdmissionReserving ==
    /\ pc = "serving"
    /\ resp = NoResp
    /\ \E req \in Requests : \E w \in webhookHandler(req) :
          /\ resp' = Answer(req, w)
          /\ stale' = (stale \/ (queue # <<>> /\ w.verdict = "Allow"))
          /\ indices' = IF w.verdict = "Allow" /\ w.stage = "done"
                        THEN indices \cup IndexEntries(req.ingress, KeyOf(req.ingress))
                        ELSE indices
    /\ UNCHANGED <<pc, admitAll, indexer, registered, synced, store, queue, writes, probe, check>>

\* an admission review is sent and the webhook answers it
Admission ==
    /\ pc = "serving"
    /\ resp = NoResp
    /\ \E req \in Requests : \E w \in webhookHandler(req) :
          /\ resp' = Answer(req, w)
          /\ stale' = (stale \/ (queue # <<>> /\ w.verdict = "Allow"))
    /\ UNCHANGED <<pc, admitAll, indexer, registered, synced, store, indices, queue, writes, probe, check>>

\* an admission review is sent while nothing listens: no answer
Refused ==
    /\ pc \notin {"serving", "exited"}
    /\ resp = NoResp
    /\ \E req \in Requests :
          resp' = Answer(req, Written("none", [kind |-> "ConnectionRefused"],
                                      "refused", <<>>))
    /\ UNCHANGED <<pc, admitAll, indexer, registered, synced, store, indices, queue, writes, stale, probe, check>>

IsIngressWrite(req) == req.resource = ingressResourceType /\ req.raw = "ok"

\* the allowed create or update is persisted and its watch event emitted
Persist ==
    /\ resp # NoResp
    /\ resp.verdict = "Allow"
    /\ IsIngressWrite(resp.req)
    /\ writes < MaxWrites
    /\ queue' = Append(queue, [key |-> KeyOf(resp.req.ingress), obj |-> resp.req.ingress])
    /\ writes' = writes + 1
    /\ resp' = NoResp
    /\ UNCHANGED <<pc, admitAll, indexer, registered, synced, store, indices, stale, probe, check>>

\* the answer is returned to the client and nothing is persisted
Discard ==
    /\ resp # NoResp
    /\ resp' = NoResp
    /\ UNCHANGED <<pc, admitAll, indexer, registered, synced, store, indices, queue, writes, stale, probe, check>>

\* deletes are not sent to the webhook (it is configured for CREATE and UPDATE)
Delete ==
    /\ writes < MaxWrites
    /\ \E k \in Keys :
          /\ Cluster[k] # Absent
          /\ queue' = Append(queue, [key |-> k, obj |-> Absent])
    /\ writes' = writes + 1
    /\ UNCHANGED <<pc, admitAll, indexer, registered, synced, store, indices, resp, stale, probe, check>>

Next ==
    \/ NewIndexerInformer
    \/ SetIndexer
    \/ RunInformer
    \/ WaitForCacheSync
    \/ SyncTimedOut
    \/ ListenAndServe
    \/ LoadFailed
    \/ Shutdown
    \/ InitialSync
    \/ ApplyDelta
    \/ Admission
    \/ Refused
    \/ Persist
    \/ Discard
    \/ Delete

Spec == Init /\ [][Next]_vars

-----------------------------------------------------------------------------
(* The provider functions on their own *)

ProbeClasses == {"ATS", "istio", "nginx", "ats", "Istio"}

ProbeDomains == {<<>>, <<" ">>, <<"a">>, <<" ", "A">>, <<"b">>}

ProbeAliases ==
    {<<"a">>, <<"a", ",", "b">>, <<"B", ",", " ", ",", "a">>, <<",">>}

ProbePorts == {<<" ">>, <<"8">>, <<"8", ",", "9">>, <<" ", ",">>}

ProbeRules ==
    {<<>>, << <<"a">> >>, << <<>> >>, << <<"a">>, <<" ">> >>,
     << <<"A">>, <<"a">> >>, << <<"b">>, <<"a">> >>}

ProbeKeySets ==
    {{}, {IngressClass}, {DefaultDomain, Ports}, {IngressClass, DefaultDomain, Ports},
     {DefaultDomain, Aliases, Ports}, {IngressClass, DefaultDomain, Aliases, Ports},
     {Aliases}, {IngressClass, Ports}}

ProbeIngresses ==
    {mkIngress(<<"ns1", "ing1">>, mkAnn(keys, class, dd, al, po), backend, rules) :
        keys \in ProbeKeySets, class \in ProbeClasses, dd \in ProbeDomains,
        al \in ProbeAliases, po \in ProbePorts, backend \in BOOLEAN,
        rules \in ProbeRules}

\* one ingress is handed to every provider function, once
Probe ==
    /\ ~probe.probed
    /\ \E i \in ProbeIngresses :
          probe' = [probed |-> TRUE, ingress |-> i,
                    atsServes |-> ATSServesIngress(i),
                    istioServes |-> IstioServesIngress(i),
                    atsDomains |-> ATSGetDomains(i),
                    istioDomains |-> IstioGetDomains(i),
                    atsIndex |-> ATSDomainsIndexFunc(i),
                    istioIndex |-> IstioDomainsIndexFunc(i),
                    atsSemantics |-> ATSValidateSemantics(i),
                    istioSemantics |-> IstioValidateSemantics(i),
                    providers |-> GetProvider(i)]
    /\ UNCHANGED <<pc, admitAll, indexer, registered, synced, store, indices, queue, resp, writes, stale, check>>

NextFn == Probe

SpecFn == Init /\ [][NextFn]_vars

-----------------------------------------------------------------------------
(* sanitize on its own *)

\* the length of the longest string handed to sanitize
MaxLen == 3

\* the characters of the strings: letters in both cases, the space, the comma
Alphabet == {"a", "b", "A", "B", " ", ","}

ProbeStrings == UNION {[1..n -> Alphabet] : n \in 0..MaxLen}

\* one string is sanitized, and the result sanitized again
ProbeSanitize ==
    /\ ~probe.probed
    /\ \E s \in ProbeStrings :
          probe' = [probed |-> TRUE, text |-> s,
                    once |-> sanitize(s), twice |-> sanitize(sanitize(s))]
    /\ UNCHANGED <<pc, admitAll, indexer, registered, synced, store, indices, queue, resp, writes, stale, check>>

NextSanitize == ProbeSanitize

SpecSanitize == Init /\ [][NextSanitize]_vars

-----------------------------------------------------------------------------
(* Requests served one at a time: a review is sent only when every          *)
(* persisted write has reached the index.                                   *)

SerialAdmission ==
    /\ queue = <<>>
    /\ Admission

NextSerial ==
    \/ NewIndexerInformer
    \/ SetIndexer
    \/ RunInformer
    \/ WaitForCacheSync
    \/ SyncTimedOut
    \/ ListenAndServe
    \/ LoadFailed
    \/ Shutdown
    \/ InitialSync
    \/ ApplyDelta
    \/ SerialAdmission
    \/ Refused
    \/ Persist
    \/ Discard
    \/ Delete

SpecSerial == Init /\ [][NextSerial]_vars

-----------------------------------------------------------------------------
(* The helper and the handler driven as the tests drive them: an indexer    *)
(* created with any of the providers' indices, objects added to it          *)
(* directly, and webhookHandler called on a request.                        *)

\* helper.SetIndexer(cache.NewIndexer(keyFunc, cache.Indexers{...}))
TestSetIndexer ==
    /\ indexer = "nil"
    /\ indexer' = "bound"
    /\ \E names \in SUBSET Providers : registered' = names
    /\ UNCHANGED <<pc, admitAll, synced, store, indices, queue, resp, writes, stale, probe, check>>

\* indexer.Add(ingress): stored under its key, an object of the same key replaced
TestIndexerAdd ==
    /\ indexer = "bound"
    /\ \E i \in Ingresses :
          /\ store' = [store EXCEPT ![KeyOf(i)] = i]
          /\ indices' = updateIndices(indices, store[KeyOf(i)], i, KeyOf(i))
    /\ UNCHANGED <<pc, admitAll, indexer, registered, synced, queue, resp, writes, stale, probe, check>>

\* webhookHandler(rw, req) on a recorder
TestWebhookHandler ==
    /\ resp = NoResp
    /\ \E req \in Requests : \E w \in webhookHandler(req) : resp' = Answer(req, w)
    /\ UNCHANGED <<pc, admitAll, indexer, registered, synced, store, indices, queue, writes, stale, probe, check>>

NextTest ==
    \/ TestSetIndexer
    \/ TestIndexerAdd
    \/ TestWebhookHandler
    \/ Discard

SpecTest == Init /\ [][NextTest]_vars

-----------------------------------------------------------------------------
(* The claim check with its lookups as separate steps: each ByIndex call of  *)
(* the loop of validateDomainClaims takes the store's lock on its own, and   *)
(* the informer applies watch events between two calls.                      *)

\* an unclassed ingress body claiming b alone
MovedShape ==
    [ann |-> mkAnn({DefaultDomain, Ports}, "", <<"b">>, <<>>, <<"8">>),
     backend |-> TRUE, rules |-> <<>>]

\* the ingresses of the interleaved checks: one claiming a, one claiming b,
\* one claiming b and then a, each under two keys
CheckIngresses ==
    {mkIngress(k, s.ann, s.backend, s.rules) :
        k \in {<<"ns1", "ing1">>, <<"ns1", "ing2">>},
        s \in {MovedShape} \cup
              {x \in Shapes : IngressClass \notin DOMAIN x.ann /\ Ports \in DOMAIN x.ann} \cup
              {x \in Shapes : Aliases \in DOMAIN x.ann}}

CheckRequests == {WellFormed(i) : i \in CheckIngresses}

\* the request gets to the loop of validateDomainClaims
ReachesClaimCheck(req) ==
    /\ ~admitAll
    /\ \A p \in GetProvider(req.ingress) : ValidateSemantics(p, req.ingress) = NoErr

\* the handler answers before the claim check: lines 57-125
AnswerEarly ==
    /\ pc = "serving"
    /\ resp = NoResp
    /\ check.phase # "running"
    /\ \E req \in CheckRequests :
          /\ ~ReachesClaimCheck(req)
          /\ \E w \in webhookHandler(req) : resp' = Answer(req, w)
    /\ check' = NoCheck
    /\ UNCHANGED <<pc, admitAll, indexer, registered, synced, store, indices, queue, writes, stale, probe>>

\* the handler comes to ValidateDomainClaims: the domains are taken once
BeginCheck ==
    /\ pc = "serving"
    /\ resp = NoResp
    /\ check.phase # "running"
    /\ \E req \in CheckRequests : \E p \in GetProvider(req.ingress) :
          /\ ReachesClaimCheck(req)
          /\ check' = [phase |-> "running", req |-> req,
                       domains |-> IF ServesIngress(p, req.ingress)
                                   THEN GetDomains(p, req.ingress) ELSE <<>>,
                       pos |-> 1, lookups |-> <<>>, seen |-> {indices}]
    /\ UNCHANGED <<pc, admitAll, indexer, registered, synced, store, indices, queue, resp, writes, stale, probe>>

\* one turn of the loop, lines 227-238: a lookup, then the matches
LookupStep ==
    /\ check.phase = "running"
    /\ check.pos <= Len(check.domains)
    /\ \E o \in validateDomainClaimsFrom(check.req.ingress,
                     <<check.domains[check.pos]>>, check.lookups) :
          IF o.err = NoErr
          THEN /\ check' = [check EXCEPT !.pos = @ + 1, !.lookups = o.lookups]
               /\ resp' = resp
          ELSE /\ check' = [phase |-> "done", req |-> check.req,
                            domains |-> check.domains, seen |-> check.seen]
               /\ resp' = Answer(check.req,
                      IF o.err.kind = "panic"
                      THEN Panicked("ValidateDomainClaims", o.lookups)
                      ELSE Deny(o.err, "ValidateDomainClaims", o.lookups))
    /\ UNCHANGED <<pc, admitAll, indexer, registered, synced, store, indices, queue, writes, stale, probe>>

\* the loop is over: line 240, then listener.go:134-135
EndCheck ==
    /\ check.phase = "running"
    /\ check.pos > Len(check.domains)
    /\ resp' = Answer(check.req, Allow("done", check.lookups))
    /\ check' = [phase |-> "done", req |-> check.req,
                 domains |-> check.domains, seen |-> check.seen]
    /\ UNCHANGED <<pc, admitAll, indexer, registered, synced, store, indices, queue, writes, stale, probe>>

\* ApplyDelta, the index state it leads to recorded for the check in progress
ApplyDeltaObserved ==
    /\ InformerRunning
    /\ synced
    /\ queue # <<>>
    /\ LET d == Head(queue)
       IN  /\ store' = [store EXCEPT ![d.key] = d.obj]
           /\ indices' = updateIndices(indices, store[d.key], d.obj, d.key)
    /\ queue' = Tail(queue)
    /\ check' = IF check.phase = "running"
                THEN [check EXCEPT !.seen = @ \cup {indices'}]
                ELSE check
    /\ UNCHANGED <<pc, admitAll, indexer, registered, synced, resp, writes, stale, probe>>

NextInterleaved ==
    \/ NewIndexerInformer
    \/ SetIndexer
    \/ RunInformer
    \/ WaitForCacheSync
    \/ ListenAndServe
    \/ InitialSync
    \/ ApplyDeltaObserved
    \/ AnswerEarly
    \/ BeginCheck
    \/ LookupStep
    \/ EndCheck
    \/ Persist
    \/ Discard

SpecInterleaved == Init /\ [][NextInterleaved]_vars

-----------------------------------------------------------------------------
(* Properties *)

\* the handler ran on the request and resp is what it wrote
Answered == resp # NoResp /\ resp.stage # "refused"

\* the step in which the handler answers a request
HandlerStep == resp = NoResp /\ resp' # NoResp /\ resp'.stage # "refused"

Routed(req) == req.method = "POST" /\ req.path = "/"

\* the body decoded into an AdmissionReview that carries a request
IsAdmissionRequest(req) == Routed(req) /\ req.envelope = "ok" /\ ~req.requestNil

\* the request gets as far as provider resolution when admitAll is off
CarriesIngress(req) ==
    IsAdmissionRequest(req) /\ req.resource = ingressResourceType /\ req.raw = "ok"

SemanticallyValid(p, ingress) == ValidateSemantics(p, ingress) = NoErr

\* the claims <<domain, owner>> the index of p holds on the ingress's domains
\* for owners other than the ingress
ForeignClaims(p, ingress) ==
    {c \in Range(GetDomains(p, ingress)) \X Keys :
        /\ <<p, c[1], c[2]>> \in indices
        /\ c[2] # KeyOf(ingress)}

\* the keys of the objects that p serves and that claim domain d
Owners(objects, p, d) ==
    {k \in Keys : objects[k] # Absent /\ ServesIngress(p, objects[k])
                  /\ d \in Range(GetDomains(p, objects[k]))}

AllDomains == UNION {Range(GetDomains(p, i)) : p \in Providers, i \in Ingresses}

OneOwner(objects) ==
    \A p \in Providers : \A d \in AllDomains : Cardinality(Owners(objects, p, d)) <= 1

\* C1. Conflict detection: with admitAll off, a request for a semantically
\* valid ingress resolved to provider P is denied whenever P's index holds,
\* for one of the ingress's domains, an ingress of another namespace or name;
\* the reason names such a domain and its owner's name and namespace.
C1_ConflictDetection ==
    [][(HandlerStep /\ ~admitAll /\ CarriesIngress(resp'.req)) =>
        \A p \in GetProvider(resp'.req.ingress) :
            (/\ SemanticallyValid(p, resp'.req.ingress)
             /\ ForeignClaims(p, resp'.req.ingress) # {})
            => /\ resp'.verdict = "Deny"
               /\ resp'.reason.kind = "DomainExists"
               /\ <<resp'.reason.domain, <<resp'.reason.namespace, resp'.reason.name>> >>
                      \in ForeignClaims(p, resp'.req.ingress)]_vars

\* a request is denied for a domain owned by an ingress of the same name in
\* another namespace
C1_Witness ==
    /\ Answered /\ ~admitAll
    /\ resp.verdict = "Deny"
    /\ resp.reason.kind = "DomainExists"
    /\ resp.reason.name = resp.req.ingress.name
    /\ resp.reason.namespace # resp.req.ingress.namespace

\* C2. Self-claim permitted: with admitAll off, a request for a semantically
\* valid ingress is allowed whenever the index of its provider holds no owner
\* other than the ingress itself for any of its domains.
C2_SelfClaimPermitted ==
    [][(HandlerStep /\ ~admitAll /\ CarriesIngress(resp'.req)) =>
        \A p \in GetProvider(resp'.req.ingress) :
            (/\ SemanticallyValid(p, resp'.req.ingress)
             /\ ForeignClaims(p, resp'.req.ingress) = {})
            => resp'.verdict = "Allow"]_vars

\* an update is allowed for an ingress that already owns one of its domains
\* and now claims a domain it did not own
C2_Witness ==
    /\ Answered /\ ~admitAll
    /\ resp.verdict = "Allow"
    /\ \E p \in GetProvider(resp.req.ingress) :
          /\ \E d \in Range(GetDomains(p, resp.req.ingress)) :
                <<p, d, KeyOf(resp.req.ingress)>> \in indices
          /\ \E d \in Range(GetDomains(p, resp.req.ingress)) :
                <<p, d, KeyOf(resp.req.ingress)>> \notin indices

\* C3. Provider isolation: every lookup of a claim check is made under the
\* name of the provider the ingress resolves to, and the owner a Deny names
\* is indexed under that provider and served by it; an owner recorded only
\* in the other provider's index never causes a Deny.
C3_ProviderIsolation ==
    [][(HandlerStep /\ ~admitAll /\ CarriesIngress(resp'.req)) =>
        \A p \in GetProvider(resp'.req.ingress) :
            /\ \A i \in 1..Len(resp'.lookups) : resp'.lookups[i][1] = p
            /\ resp'.reason.kind = "DomainExists" =>
                 LET owner == <<resp'.reason.namespace, resp'.reason.name>>
                 IN  /\ <<p, resp'.reason.domain, owner>> \in indices
                     /\ ServesIngress(p, store[owner])]_vars

\* an ingress is allowed although an ingress of another identity claims the
\* same domain under the other provider
C3_Witness ==
    /\ Answered /\ ~admitAll
    /\ resp.verdict = "Allow"
    /\ resp.stage = "done"
    /\ \E p \in GetProvider(resp.req.ingress) : \E e \in indices :
          /\ e[1] # p
          /\ e[2] \in Range(GetDomains(p, resp.req.ingress))
          /\ e[3] # KeyOf(resp.req.ingress)

C5_AdmitAllOverride ==
    (Answered /\ admitAll /\ IsAdmissionRequest(resp.req)) =>
        /\ resp.verdict = "Allow"
        /\ resp.stage = "admitAll"
        /\ resp.lookups = <<>>

\* admitAll allows an ingress that fails its provider's semantic validation
C5_Witness ==
    /\ Answered /\ admitAll
    /\ resp.verdict = "Allow"
    /\ CarriesIngress(resp.req)
    /\ \E p \in GetProvider(resp.req.ingress) : ~SemanticallyValid(p, resp.req.ingress)

\* C6. Fail-closed: while the initial sync has not completed or the indexer
\* is unset, nothing that was answered is an Allow, and a Deny has an
\* index-unavailable reason.
C6_FailClosed ==
    (resp # NoResp /\ (~synced \/ indexer = "nil")) =>
        /\ resp.verdict # "Allow"
        /\ resp.verdict = "Deny" => resp.reason.kind = "IndexUnavailable"

\* a review sent before the sync completed got no verdict
C6_Witness ==
    /\ resp # NoResp
    /\ ~synced
    /\ pc = "waitSync"
    /\ CarriesIngress(resp.req)
    /\ resp.verdict = "none"

\* C7. Startup ordering: the handler answers only once SetIndexer has bound
\* the indexer, the informer runs and the initial sync is complete; a process
\* that ended fatally never answered a request.
C7_StartupOrdering ==
    /\ Answered => (pc \in {"serving", "exited"} /\ indexer = "bound" /\ synced)
    /\ pc = "fatal" => ~Answered

\* the sync did not complete, the process exited, a review sent to it went
\* unanswered
C7_Witness ==
    /\ pc = "fatal"
    /\ ~synced
    /\ resp # NoResp
    /\ resp.stage = "refused"

\* C8 as stated. A request whose resource type is not the ingress resource
\* ends in Deny with a resource-mismatch reason.
C8_NonIngressDenied ==
    (Answered /\ Routed(resp.req) /\ ~resp.req.requestNil
        /\ resp.req.resource # ingressResourceType) =>
        /\ resp.verdict = "Deny"
        /\ resp.reason.kind = "NotIngressResource"

\* C8 as amended: with admitAll off, a request whose review decodes and
\* whose resource type is not the ingress resource ends in Deny with a
\* resource-mismatch reason at the resource check, before the ingress is
\* decoded, a provider resolved or the index looked up.
C8_NonIngressDeniedUnlessAdmitAll ==
    (Answered /\ ~admitAll /\ IsAdmissionRequest(resp.req)
        /\ resp.req.resource # ingressResourceType) =>
        /\ resp.verdict = "Deny"
        /\ resp.reason.kind = "NotIngressResource"
        /\ resp.reason.resource = resp.req.resource
        /\ resp.stage = "resourceType"
        /\ resp.lookups = <<>>

\* a pods request whose object is no ingress is denied for its resource type
C8_Witness ==
    /\ Answered /\ ~admitAll
    /\ resp.req.resource = podsResourceType
    /\ resp.req.raw = "badIngress"
    /\ resp.verdict = "Deny"
    /\ resp.reason.kind = "NotIngressResource"

\* C9. Decode errors are terminal Deny: a request whose review cannot be
\* decoded, or whose ingress object cannot be decoded once the handler gets
\* to it, ends in Deny with a reason that carries the parse failure.
C9_DecodeErrorsDeny ==
    /\ (Answered /\ Routed(resp.req) /\ resp.req.envelope # "ok") =>
          /\ resp.verdict = "Deny"
          /\ resp.reason.kind = "DecodeAdmissionReview"
          /\ resp.reason.cause = resp.req.envelope
    /\ (Answered /\ ~admitAll /\ IsAdmissionRequest(resp.req)
          /\ resp.req.resource = ingressResourceType /\ resp.req.raw # "ok") =>
          /\ resp.verdict = "Deny"
          /\ resp.reason.kind \in {"DecodeIngress", "DecodeIngressMeta"}
          /\ resp.reason.cause = resp.req.raw

-----------------------------------------------------------------------------
(* Properties of the provider functions *)

\* the probed ingress has the class annotation and it is c
ProbedClassIs(c) ==
    IngressClass \in DOMAIN probe.ingress.ann /\ probe.ingress.ann[IngressClass] = c

ProbedUnclassed == IngressClass \notin DOMAIN probe.ingress.ann

\* the entries of raw, each sanitized, the empty ones left out
NonEmptySanitized(raw) ==
    SelectSeq([j \in 1..Len(raw) |-> sanitize(raw[j])], LAMBDA d : d # <<>>)

\* what an ATS ingress declares: the default_domain value, then the pieces
\* of the aliases value between its commas
DeclaredATS(ingress) ==
    (IF DefaultDomain \in DOMAIN ingress.ann
     THEN <<ingress.ann[DefaultDomain]>> ELSE <<>>)
    \o (IF Aliases \in DOMAIN ingress.ann THEN Split(ingress.ann[Aliases]) ELSE <<>>)

NoDuplicates(s) == \A i, j \in 1..Len(s) : s[i] = s[j] => i = j

C12_ResolutionTotal ==
    probe.probed =>
        /\ ~(probe.atsServes /\ probe.istioServes)
        /\ probe.providers = {IF ProbedClassIs("istio") THEN Istio ELSE ATS}

\* an ingress whose class differs from "istio" in case resolves to ATS
C12_Witness ==
    /\ probe.probed
    /\ ProbedClassIs("Istio")
    /\ probe.providers = {ATS}

\* C13 as stated. GetDomains never returns the same domain twice.
C13_NoDuplicateDomains ==
    probe.probed =>
        /\ NoDuplicates(probe.atsDomains)
        /\ NoDuplicates(probe.istioDomains)

\* C13 as amended: GetDomains never returns an empty entry; an entry that is
\* empty after sanitization is dropped and every other declared entry is
\* returned, one that repeats an earlier entry included.
C13_NoEmptyDomains ==
    probe.probed =>
        /\ \A i \in 1..Len(probe.atsDomains) : probe.atsDomains[i] # <<>>
        /\ \A i \in 1..Len(probe.istioDomains) : probe.istioDomains[i] # <<>>
        /\ probe.atsServes =>
             Len(probe.atsDomains) =
                Cardinality({j \in 1..Len(DeclaredATS(probe.ingress)) :
                                sanitize(DeclaredATS(probe.ingress)[j]) # <<>>})
        /\ probe.istioServes =>
             Len(probe.istioDomains) =
                Cardinality({j \in 1..Len(probe.ingress.rules) :
                                sanitize(probe.ingress.rules[j]) # <<>>})

\* two rule hosts that differ in case only are both returned
C13_Witness ==
    /\ probe.probed
    /\ probe.istioServes
    /\ probe.ingress.rules = << <<"A">>, <<"a">> >>
    /\ probe.istioDomains = << <<"a">>, <<"a">> >>

\* C14. ATS GetDomains returns, for an ingress ATS serves, the sanitized
\* default_domain value first, then the sanitized pieces of the aliases
\* value between its commas in declared order, the empty ones dropped; it
\* returns the empty list when neither annotation is present and when ATS
\* does not serve the ingress.
C14_ATSGetDomains ==
    probe.probed =>
        /\ probe.atsDomains =
              IF ProbedUnclassed \/ ProbedClassIs(ATS)
              THEN NonEmptySanitized(DeclaredATS(probe.ingress))
              ELSE <<>>
        /\ ({DefaultDomain, Aliases} \cap DOMAIN probe.ingress.ann = {})
              => probe.atsDomains = <<>>

\* the default domain comes first, then the aliases "B", " ", "a" as b, a
C14_Witness ==
    /\ probe.probed
    /\ probe.atsServes
    /\ {DefaultDomain, Aliases} \subseteq DOMAIN probe.ingress.ann
    /\ probe.ingress.ann[DefaultDomain] = <<" ", "A">>
    /\ probe.ingress.ann[Aliases] = <<"B", ",", " ", ",", "a">>
    /\ probe.atsDomains = << <<"a">>, <<"b">>, <<"a">> >>

\* C15. Istio GetDomains returns, for an ingress Istio serves, the sanitized
\* host of each rule in rule order, the rules whose host is empty after
\* sanitization skipped; it returns the empty list for every ingress Istio
\* does not serve, whatever its rules.
C15_IstioGetDomains ==
    probe.probed =>
        probe.istioDomains =
            IF ProbedClassIs("istio")
            THEN NonEmptySanitized(probe.ingress.rules)
            ELSE <<>>

\* a rule with a blank host is skipped
C15_Witness ==
    /\ probe.probed
    /\ probe.istioServes
    /\ probe.ingress.rules = << <<"a">>, <<" ">> >>
    /\ probe.istioDomains = << <<"a">> >>

\* the error of the first failing ATS check when the ports check fails for
\* the values in portsMissing
ATSExpectedError(ingress, portsMissing) ==
    IF ~(ProbedUnclassed \/ ProbedClassIs(ATS)) THEN "nil"
    ELSE IF ~ingress.backend THEN "NoDefaultBackend"
    ELSE IF portsMissing THEN "NoPorts"
    ELSE IF \/ DefaultDomain \notin DOMAIN ingress.ann
            \/ sanitize(ingress.ann[DefaultDomain]) = <<>>
    THEN "NoDefaultDomain"
    ELSE "nil"

\* the error names the ingress
NamesIngress(err, ingress) ==
    err # NoErr => (err.name = ingress.name /\ err.namespace = ingress.namespace)

\* C16 as stated. ATS ValidateSemantics fails for an ingress ATS serves if
\* it has no default backend, else if the ports annotation is absent or
\* empty after sanitization, else if the default_domain annotation is absent
\* or empty after sanitization; it succeeds otherwise.
C16_ATSValidateSemantics ==
    probe.probed =>
        /\ probe.atsSemantics.kind =
              ATSExpectedError(probe.ingress,
                  \/ Ports \notin DOMAIN probe.ingress.ann
                  \/ sanitize(probe.ingress.ann[Ports]) = <<>>)
        /\ NamesIngress(probe.atsSemantics, probe.ingress)

\* C16 as amended: the same, the ports check failing when the ports
\* annotation is absent or none of its comma-separated entries is non-empty
\* after sanitization.
C16_ATSValidateSemanticsPortEntries ==
    probe.probed =>
        /\ probe.atsSemantics.kind =
              ATSExpectedError(probe.ingress,
                  \/ Ports \notin DOMAIN probe.ingress.ann
                  \/ Range(sanitize(probe.ingress.ann[Ports])) \subseteq {","})
        /\ NamesIngress(probe.atsSemantics, probe.ingress)

\* a ports value of a blank and a comma has no entry and fails the ports check
C16_Witness ==
    /\ probe.probed
    /\ probe.atsServes
    /\ probe.ingress.backend
    /\ {Ports, DefaultDomain} \subseteq DOMAIN probe.ingress.ann
    /\ probe.ingress.ann[Ports] = <<" ", ",">>
    /\ probe.ingress.ann[DefaultDomain] = <<"a">>
    /\ probe.atsSemantics.kind = "NoPorts"

\* C17. Istio ValidateSemantics fails for an ingress Istio serves if it has
\* a default backend, else if a rule has a host that is empty after
\* sanitization; the error names the ingress; it succeeds otherwise and for
\* every ingress Istio does not serve.
C17_IstioValidateSemantics ==
    probe.probed =>
        /\ probe.istioSemantics.kind =
              IF ~ProbedClassIs("istio") THEN "nil"
              ELSE IF probe.ingress.backend THEN "DefaultBackendNotSupported"
              ELSE IF \E r \in Range(probe.ingress.rules) : sanitize(r) = <<>>
              THEN "RuleWithoutHost"
              ELSE "nil"
        /\ NamesIngress(probe.istioSemantics, probe.ingress)

\* an istio ingress with a default backend and a rule without host fails
\* for the backend
C17_Witness ==
    /\ probe.probed
    /\ probe.istioServes
    /\ probe.ingress.backend
    /\ \E r \in Range(probe.ingress.rules) : sanitize(r) = <<>>
    /\ probe.istioSemantics.kind = "DefaultBackendNotSupported"

\* C18. Index adapter: each provider's DomainsIndexFunc returns the
\* provider's GetDomains for an ingress it serves and the empty list for one
\* it does not serve, and no ingress has index values under both providers.
C18_IndexAdapter ==
    probe.probed =>
        /\ probe.atsIndex = (IF probe.atsServes THEN probe.atsDomains ELSE <<>>)
        /\ probe.istioIndex = (IF probe.istioServes THEN probe.istioDomains ELSE <<>>)
        /\ probe.atsIndex = <<>> \/ probe.istioIndex = <<>>

\* an ingress of class nginx with a default domain and a rule host is
\* indexed under neither provider
C18_Witness ==
    /\ probe.probed
    /\ ProbedClassIs("nginx")
    /\ DefaultDomain \in DOMAIN probe.ingress.ann
    /\ probe.ingress.ann[DefaultDomain] = <<"a">>
    /\ probe.ingress.rules = << <<"a">> >>
    /\ probe.atsIndex = <<>> /\ probe.istioIndex = <<>>

-----------------------------------------------------------------------------
(* Properties of the lookup and of the claim check's order *)

\* the index names looked up: the providers' and one no provider has
LookupNames == Providers \cup {"undefined"}

\* what a lookup returns in the current state, for every name and domain
LookupContract ==
    \A name \in LookupNames : \A d \in AllDomains :
        LET found == lookupIngressesByDomain(name, d)
        IN  IF name \in registered
            THEN found.err = NoErr /\ found.ingresses = Owners(store, name, d)
            ELSE found.err # NoErr /\ found.ingresses = {}

\* C19. With an indexer bound, a lookup under a name for which no index is
\* registered returns an error and no ingresses, and a lookup under a
\* registered provider returns every stored ingress claiming the domain under
\* that provider; with admitAll off a claim check that looks up under an
\* unregistered name ends in Deny with the lookup's error, not in Allow.
C19_LookupFailClosed ==
    /\ [](indexer = "bound" => LookupContract)
    /\ [][(HandlerStep /\ ~admitAll /\ indexer = "bound" /\ CarriesIngress(resp'.req)) =>
            \A p \in GetProvider(resp'.req.ingress) :
                (/\ SemanticallyValid(p, resp'.req.ingress)
                 /\ GetDomains(p, resp'.req.ingress) # <<>>
                 /\ p \notin registered)
                => /\ resp'.verdict = "Deny"
                   /\ resp'.reason.kind = "IndexNotFound"
                   /\ resp'.reason.index = p]_vars

\* an istio ingress is denied by an indexer that has the ATS index only and
\* holds an ATS ingress
C19_Witness ==
    /\ Answered /\ ~admitAll
    /\ registered = {ATS}
    /\ \E e \in indices : e[1] = ATS
    /\ resp.verdict = "Deny"
    /\ resp.reason.kind = "IndexNotFound"
    /\ resp.reason.index = Istio

\* the positions in domains of the domains that p's index holds for an
\* ingress other than the given one
ConflictingPositions(p, ingress, domains) ==
    {j \in 1..Len(domains) :
        \E k \in Keys : <<p, domains[j], k>> \in indices /\ k # KeyOf(ingress)}

Min(S) == CHOOSE m \in S : \A n \in S : m <= n

\* the lookups of a check under p that stops after the domain at position last
LookupsUpTo(p, domains, last) == [j \in 1..last |-> <<p, domains[j]>>]

\* C20. First conflict wins: with admitAll off, the claim check of a
\* semantically valid ingress looks the domains up in the order GetDomains
\* returns them; at the first domain with a foreign owner it ends in Deny
\* naming that domain, and no later domain is looked up.
C20_FirstConflictWins ==
    [][(HandlerStep /\ ~admitAll /\ CarriesIngress(resp'.req)) =>
        \A p \in GetProvider(resp'.req.ingress) :
            SemanticallyValid(p, resp'.req.ingress) =>
                LET domains == GetDomains(p, resp'.req.ingress)
                    conflicts == ConflictingPositions(p, resp'.req.ingress, domains)
                IN  IF conflicts = {}
                    THEN resp'.lookups = LookupsUpTo(p, domains, Len(domains))
                    ELSE /\ resp'.verdict = "Deny"
                         /\ resp'.reason.kind = "DomainExists"
                         /\ resp'.reason.domain = domains[Min(conflicts)]
                         /\ resp'.lookups = LookupsUpTo(p, domains, Min(conflicts))]_vars

\* an ingress whose two domains both have a foreign owner is denied for the
\* first one after a single lookup
C20_Witness ==
    /\ Answered /\ ~admitAll
    /\ resp.verdict = "Deny"
    /\ resp.reason.kind = "DomainExists"
    /\ Len(resp.lookups) = 1
    /\ \E p \in GetProvider(resp.req.ingress) :
          LET domains == GetDomains(p, resp.req.ingress)
          IN  /\ Len(domains) = 2
              /\ domains[1] # domains[2]
              /\ ConflictingPositions(p, resp.req.ingress, domains) = {1, 2}

-----------------------------------------------------------------------------
(* Properties of the handler's stages *)

\* the first stage of the fixed order at which the request fails, "done" if
\* it fails none before the claim check, "admitAll" if the flag ends it
FirstEndingStage(req) ==
    IF req.envelope # "ok" THEN "decodeReview"
    ELSE IF admitAll THEN "admitAll"
    ELSE IF req.resource # ingressResourceType THEN "resourceType"
    ELSE IF req.raw # "ok" THEN "decodeIngress"
    ELSE IF \E p \in GetProvider(req.ingress) : ~SemanticallyValid(p, req.ingress)
    THEN "ValidateSemantics"
    ELSE "done"

\* the reason a Deny written at the stage carries
ReasonOfStage(stage) ==
    CASE stage = "decodeReview" -> {"DecodeAdmissionReview"}
      [] stage = "resourceType" -> {"NotIngressResource"}
      [] stage = "decodeIngress" -> {"DecodeIngress", "DecodeIngressMeta"}
      [] stage = "ValidateSemantics" -> {"ValidationFailed"}
      [] stage = "ValidateDomainClaims" -> {"DomainExists", "IndexNotFound"}
      [] OTHER -> {}

\* what the stage machine allows the handler to have written for the request
StageMachine(w) ==
    LET first == FirstEndingStage(w.req)
    IN  /\ w.verdict \in {"Allow", "Deny"}
        /\ IF first = "done"
           THEN w.stage \in {"ValidateDomainClaims", "done"}
           ELSE w.stage = first /\ w.lookups = <<>>
        /\ w.verdict = "Allow" <=> w.stage \in {"admitAll", "done"}
        /\ w.verdict = "Deny" => w.reason.kind \in ReasonOfStage(w.stage)

\* C21. Per-request stage machine: every request routed to the handler is
\* answered with exactly one verdict, written at the first stage of the
\* order envelope decode, admitAll, resource type, ingress decode, provider
\* resolution, semantic validation, claim check that ends it: Deny with that
\* stage's reason, without index lookup when the stage precedes the claim
\* check, and Allow only at the admitAll stage or after every stage passed.
C21_StageMachine ==
    (Answered /\ Routed(resp.req)) => StageMachine(resp)

-----------------------------------------------------------------------------
(* Properties of the index under watch events *)

\* the index entries of p that name the object stored under key k
EntriesOf(idx, p, k) == {e \in idx : e[1] = p /\ e[3] = k}

\* C22. Index lifecycle: in every state the watch events lead to, the lookup
\* of (P, d) returns without error exactly the stored ingresses that P
\* serves and whose P.GetDomains contains d, and the entries that name a key
\* are the claims of the object now stored under it: none for a deleted
\* ingress, none for a domain or a provider an update dropped.
C22_IndexLifecycle ==
    (indexer = "bound" /\ synced) =>
        \A p \in Providers :
            /\ \A d \in AllDomains :
                  /\ lookupIngressesByDomain(p, d).err = NoErr
                  /\ lookupIngressesByDomain(p, d).ingresses = Owners(store, p, d)
            /\ \A k \in Keys :
                  EntriesOf(indices, p, k) =
                      IF store[k] = Absent THEN {}
                      ELSE {<<p, d, k>> : d \in Range(GetDomains(p, store[k]))}

\* an ingress created and then updated is indexed under istio alone; the
\* state is the one reached when an ATS ingress is moved to the istio class
C22_Witness ==
    /\ ~admitAll
    /\ writes = 2 /\ queue = <<>>
    /\ \E k \in Keys :
          /\ \A other \in Keys \ {k} : store[other] = Absent
          /\ store[k] # Absent
          /\ IstioServesIngress(store[k])
          /\ EntriesOf(indices, Istio, k) # {}
          /\ EntriesOf(indices, ATS, k) = {}

-----------------------------------------------------------------------------
(* Properties of domain identity *)

\* the hosts an ingress declares for provider p, as written
DeclaredHosts(p, ingress) ==
    IF p = ATS THEN DeclaredATS(ingress) ELSE ingress.rules

\* a host with its letters in lower case and its spaces left out
Canonical(host) ==
    LET lower(c) == IF c = "A" THEN "a" ELSE IF c = "B" THEN "b" ELSE c
    IN  SelectSeq([j \in 1..Len(host) |-> lower(host[j])], LAMBDA c : c # " ")

\* the stored ingresses other than the given one that p serves and that
\* declare a host equal to one of the ingress's up to case and spaces
EquivalentOwners(p, ingress) ==
    {k \in Keys \ {KeyOf(ingress)} :
        /\ store[k] # Absent
        /\ ServesIngress(p, store[k])
        /\ \E h \in Range(DeclaredHosts(p, ingress)) :
           \E g \in Range(DeclaredHosts(p, store[k])) :
              Canonical(h) # <<>> /\ Canonical(h) = Canonical(g)}

\* C23. Domain equivalence: with admitAll off, a request for a semantically
\* valid ingress that its provider serves is denied whenever a different
\* stored ingress of that provider declares a host that equals one of the
\* request's hosts up to letter case and spaces.
C23_DomainEquivalence ==
    [][(HandlerStep /\ ~admitAll /\ CarriesIngress(resp'.req)) =>
        \A p \in GetProvider(resp'.req.ingress) :
            (/\ SemanticallyValid(p, resp'.req.ingress)
             /\ ServesIngress(p, resp'.req.ingress)
             /\ EquivalentOwners(p, resp'.req.ingress) # {})
            => /\ resp'.verdict = "Deny"
               /\ resp'.reason.kind = "DomainExists"
               /\ <<resp'.reason.namespace, resp'.reason.name>>
                     \in EquivalentOwners(p, resp'.req.ingress)]_vars

\* a request declaring "a" is denied for an owner that declares " A", no
\* host of the two being written the same way
C23_Witness ==
    /\ Answered /\ ~admitAll
    /\ resp.verdict = "Deny"
    /\ resp.reason.kind = "DomainExists"
    /\ resp.reason.domain = <<"a">>
    /\ LET owner == store[<<resp.reason.namespace, resp.reason.name>>]
       IN  /\ owner # Absent
           /\ <<" ", "A">> \in Range(DeclaredHosts(ATS, owner))
           /\ Range(DeclaredHosts(ATS, owner))
                 \cap Range(DeclaredHosts(ATS, resp.req.ingress)) = {}

\* C24. Sanitization is idempotent: sanitizing a sanitized string changes
\* nothing, and a sanitized string has no upper-case letter and no space.
C24_SanitizeIdempotent ==
    probe.probed =>
        /\ probe.twice = probe.once
        /\ \A j \in 1..Len(probe.once) : probe.once[j] \notin {"A", "B", " "}

\* a string with an upper-case letter and a space, both changed by sanitize
C24_Witness ==
    /\ probe.probed
    /\ probe.text = <<"A", " ", "b">>
    /\ probe.once = <<"a", "b">>
    /\ probe.twice = <<"a", "b">>

-----------------------------------------------------------------------------
(* Properties of the order of claims *)

\* the stored ingresses other than the given one that p serves and that
\* claim one of the ingress's domains
StoredForeignOwners(p, ingress) ==
    {k \in Keys \ {KeyOf(ingress)} :
        /\ store[k] # Absent
        /\ ServesIngress(p, store[k])
        /\ Range(GetDomains(p, store[k])) \cap Range(GetDomains(p, ingress)) # {}}

\* C25. First come, first served: with admitAll off, a request for a
\* semantically valid ingress is denied as long as the informer's store
\* holds a different ingress of its provider claiming one of its domains,
\* and the owner's claim stays as it is; it passes the claim check once the
\* owner's delete, or the update by which it dropped the domain, has been
\* applied and no other owner is left.
C25_FirstComeFirstServed ==
    [][(HandlerStep /\ ~admitAll /\ CarriesIngress(resp'.req)) =>
        \A p \in GetProvider(resp'.req.ingress) :
            SemanticallyValid(p, resp'.req.ingress) =>
                /\ StoredForeignOwners(p, resp'.req.ingress) # {}
                      => resp'.verdict = "Deny" /\ resp'.reason.kind = "DomainExists"
                /\ StoredForeignOwners(p, resp'.req.ingress) = {}
                      => resp'.verdict = "Allow" /\ resp'.stage = "done"
                /\ indices' = indices
                /\ store' = store]_vars

\* after an ingress was created and deleted and the delete applied, a
\* request of another ingress passes its claim check; the state is the one
\* reached when the deleted ingress held the domain the request claims
C25_Witness ==
    /\ Answered /\ ~admitAll
    /\ writes = 2 /\ queue = <<>>
    /\ store = EmptyStore /\ indices = {}
    /\ resp.verdict = "Allow"
    /\ resp.stage = "done"
    /\ resp.lookups # <<>>

\* the persisted writes of other ingresses that the informer has not applied
\* and that claim, under p, one of the ingress's domains
PendingForeignClaims(p, ingress) ==
    {j \in 1..Len(queue) :
        /\ queue[j].obj # Absent
        /\ queue[j].key # KeyOf(ingress)
        /\ ServesIngress(p, queue[j].obj)
        /\ Range(GetDomains(p, queue[j].obj)) \cap Range(GetDomains(p, ingress)) # {}}

\* C26. Known race: the check takes into account only what the index holds.
\* With admitAll off, a request for a semantically valid ingress is allowed
\* when the index has no foreign claim on its domains, also when a write of
\* a different ingress claiming one of them under the same provider was
\* admitted and persisted but has not reached the index.
C26_KnownRace ==
    [][(HandlerStep /\ ~admitAll /\ CarriesIngress(resp'.req)) =>
        \A p \in GetProvider(resp'.req.ingress) :
            (/\ SemanticallyValid(p, resp'.req.ingress)
             /\ PendingForeignClaims(p, resp'.req.ingress) # {}
             /\ ForeignClaims(p, resp'.req.ingress) = {})
            => resp'.verdict = "Allow" /\ resp'.stage = "done"]_vars

\* two ingresses were created through the webhook and both own the same
\* domain under the same provider
C26_Witness ==
    /\ ~admitAll
    /\ writes = 2
    /\ \E p \in Providers : \E d \in AllDomains :
          Cardinality(Owners(Cluster, p, d)) = 2

\* C27. The decision engine is read-only: the step in which the handler
\* answers a request, whatever the verdict, leaves the index, the store
\* behind it, the bound indexer and the indices it was created with
\* unchanged; the index changes only in the step that applies a watch event.
C27_ReadOnlyEngine ==
    [][/\ HandlerStep =>
            /\ indices' = indices
            /\ store' = store
            /\ indexer' = indexer
            /\ registered' = registered
       /\ (indices' # indices \/ store' # store) =>
            /\ queue # <<>>
            /\ queue' = Tail(queue)
            /\ resp' = resp]_vars

\* a request was allowed after lookups and the index holds no claim of its
\* ingress, only those of another
C27_Witness ==
    /\ Answered /\ ~admitAll
    /\ resp.verdict = "Allow"
    /\ resp.lookups # <<>>
    /\ indices # {}
    /\ \A e \in indices : e[3] # KeyOf(resp.req.ingress)

\* C28. Serialized admission preserves uniqueness: with admitAll off, when
\* every review is decided only after all persisted writes have reached the
\* index, no two ingress identities claim the same domain under the same
\* provider, in the cluster or in the index.
C28_SerializedUniqueness ==
    ~admitAll =>
        /\ \A p \in Providers : \A d \in AllDomains :
              \A k1, k2 \in Owners(Cluster, p, d) : k1 = k2
        /\ \A e1, e2 \in indices :
              (e1[1] = e2[1] /\ e1[2] = e2[2]) => e1[3] = e2[3]

\* two ingresses admitted one after the other own the same domain, one under
\* ATS and one under istio
C28_Witness ==
    /\ ~admitAll
    /\ writes = 2 /\ queue = <<>>
    /\ \E k1, k2 \in Keys : \E d \in AllDomains :
          /\ k1 # k2
          /\ <<ATS, d, k1>> \in indices
          /\ <<Istio, d, k2>> \in indices

-----------------------------------------------------------------------------
(* Properties of ingresses of other classes *)

\* the class annotation is present and names neither provider
UnknownClass(ingress) ==
    /\ IngressClass \in DOMAIN ingress.ann
    /\ ingress.ann[IngressClass] \notin {"ATS", "istio"}

\* C30. Unknown ingress class bypasses all checks: an ingress whose class
\* is present and is neither "ATS" nor "istio" resolves to ATS, which does
\* not serve it; a well-formed request for it is answered Allow without
\* semantic validation and without index lookup, and a stored ingress of
\* such a class has no entry in any index.
C30_UnknownClassBypass ==
    /\ (Answered /\ CarriesIngress(resp.req) /\ UnknownClass(resp.req.ingress)) =>
          /\ GetProvider(resp.req.ingress) = {ATS}
          /\ ~ServesIngress(ATS, resp.req.ingress)
          /\ resp.verdict = "Allow"
          /\ resp.stage = IF admitAll THEN "admitAll" ELSE "done"
          /\ resp.lookups = <<>>
    /\ \A k \in Keys :
          (store[k] # Absent /\ UnknownClass(store[k]))
              => \A e \in indices : e[3] # k

\* an ingress of class nginx with no ports and no default backend, claiming
\* a domain that an ATS ingress owns in the index, is allowed
C30_Witness ==
    /\ Answered /\ ~admitAll
    /\ UnknownClass(resp.req.ingress)
    /\ Ports \notin DOMAIN resp.req.ingress.ann
    /\ ~resp.req.ingress.backend
    /\ resp.verdict = "Allow"
    /\ \E e \in indices :
          /\ e[1] = ATS
          /\ e[2] = sanitize(resp.req.ingress.ann[DefaultDomain])
          /\ e[3] # KeyOf(resp.req.ingress)

-----------------------------------------------------------------------------
(* Properties of the check whose lookups are separate steps *)

\* the check of resp's request is over and resp is its verdict
CheckDone == check.phase = "done" /\ resp # NoResp /\ resp.req = check.req

\* the domain has, in the index state idx, an owner under one of the
\* ingress's providers that is not the ingress
ForeignOwnerIn(idx, ingress, d) ==
    \E p \in GetProvider(ingress) : \E k \in Keys \ {KeyOf(ingress)} :
        <<p, d, k>> \in idx

\* the verdict of the whole check made against the one index state idx
VerdictAgainst(idx, ingress, domains) ==
    IF \E d \in Range(domains) : ForeignOwnerIn(idx, ingress, d)
    THEN "Deny" ELSE "Allow"

\* C29. Snapshot consistency of a multi-domain check: the verdict of a claim
\* check over its domains equals the verdict the same check gives against
\* one single index state that existed between the check's start and its
\* end, also when watch events update the index between the lookups.
C29_SnapshotConsistent ==
    CheckDone =>
        \E idx \in check.seen :
            resp.verdict = VerdictAgainst(idx, check.req.ingress, check.domains)

\* what the separate lookups do give: when no watch event is applied between
\* the start and the end of the check, the verdict is that of the check
\* against the one index state; otherwise a Deny names a domain and an owner
\* that one of the index states of the interval holds, and an Allow means
\* that each domain, taken alone, has no foreign owner in one of those states
PerLookupConsistent ==
    CheckDone =>
        /\ Cardinality(check.seen) = 1 =>
              \A idx \in check.seen :
                  resp.verdict = VerdictAgainst(idx, check.req.ingress, check.domains)
        /\ resp.verdict = "Deny" =>
              /\ resp.reason.kind = "DomainExists"
              /\ resp.reason.domain \in Range(check.domains)
              /\ \E idx \in check.seen : \E p \in GetProvider(check.req.ingress) :
                    /\ <<p, resp.reason.domain,
                          <<resp.reason.namespace, resp.reason.name>> >> \in idx
                    /\ <<resp.reason.namespace, resp.reason.name>> # KeyOf(check.req.ingress)
        /\ resp.verdict = "Allow" =>
              \A d \in Range(check.domains) :
                  \E idx \in check.seen : ~ForeignOwnerIn(idx, check.req.ingress, d)
        /\ resp.verdict \in {"Allow", "Deny"}

\* a check of two domains is allowed although a watch event was applied
\* between its lookups and every index state of the interval holds a
\* foreign owner of one of the domains
AllowedAgainstEverySnapshot ==
    /\ CheckDone
    /\ Len(check.domains) = 2
    /\ Cardinality(check.seen) = 2
    /\ resp.verdict = "Allow"
    /\ \A idx \in check.seen :
          VerdictAgainst(idx, check.req.ingress, check.domains) = "Deny"

=============================================================================
